---- MODULE Spec2Model ----
(***************************************************************************)
(* Model of the notebook "Azure/Train on Azure.ipynb": a linear flow of    *)
(* cells that resolves a workspace, finds or creates a compute cluster,    *)
(* resolves the default datastore, creates an experiment, builds a         *)
(* TensorFlow estimator, submits it and cancels the run.  The remote       *)
(* service is the environment: any remote call may raise, the cluster      *)
(* scales and the run changes state on the provider's side.                *)
(***************************************************************************)
EXTENDS Integers, Sequences, FiniteSets, TLC

VARIABLES
    environ,            \* os.environ: a mapping defined on the variables that are set
    initial_targets,    \* ws.compute_targets as it was when the flow started (history)
    compute_targets,    \* ws.compute_targets now: name -> type of the target
    pc,                 \* the step the flow is at
    ws,                 \* the workspace handle
    compute_name, compute_min_nodes, compute_max_nodes, vm_size,
    provisioning_config,
    compute_target,     \* the notebook's compute_target name
    ds, exp, script_params, tf_est, run,
    calls,              \* the remote calls made so far, with their outcome
    createRequests,     \* the ComputeTarget.create requests the service received
    submissions,        \* the descriptors the service received through exp.submit
    cancelRequests,     \* the run ids the service was asked to cancel
    stdout,             \* what the cells printed
    displayed,          \* the run's repr shown by the submit cell
    elapsed,            \* minutes spent in wait_for_completion
    minReached,         \* provider: the cluster has its minimum node count
    runState            \* provider: the state of the submitted run

localVars == <<ws, compute_name, compute_min_nodes, compute_max_nodes, vm_size,
               provisioning_config, compute_target, ds, exp, script_params,
               tf_est, run>>
serviceVars == <<compute_targets, createRequests, submissions, cancelRequests,
                 minReached, runState>>
vars == <<environ, initial_targets, pc, calls, stdout, displayed, elapsed,
          localVars, serviceVars>>

(***************************************************************************)
(* Python values: a value carries its type, so that the int default 0 and  *)
(* a string read from the environment stay distinct.                       *)
(***************************************************************************)
PyStr(s) == <<"str", s>>
PyInt(s) == <<"int", s>>
PyNone == <<"NoneType", "None">>

\* Names that are not bound yet (a read of them would be a NameError).
Unbound == "<unbound>"
UnboundTarget == [name |-> Unbound, type |-> Unbound]
UnboundWorkspace == [name |-> Unbound, subscription_id |-> PyNone, resource_group |-> Unbound]
UnboundConfig == [vm_size |-> PyNone, min_nodes |-> PyNone, max_nodes |-> PyNone]
UnboundParams == [f \in {} |-> Unbound]
UnboundEstimator ==
    [source_directory |-> Unbound, script_params |-> UnboundParams,
     compute_target |-> UnboundTarget, entry_script |-> Unbound,
     conda_packages |-> <<>>, pip_packages |-> <<>>, use_gpu |-> FALSE]

\* The environment variables the notebook reads and the values tried for each.
EnvVars == {"AZURE_SUBSCRIPTION_ID", "AML_COMPUTE_CLUSTER_NAME",
            "AML_COMPUTE_CLUSTER_MIN_NODES", "AML_COMPUTE_CLUSTER_MAX_NODES",
            "AML_COMPUTE_CLUSTER_SKU"}
TargetNames == {"dlwp-compute-1", "gpu-b"}
TargetTypes == {"AmlCompute", "RemoteCompute"}
EnvValues(v) ==
    CASE v = "AZURE_SUBSCRIPTION_ID" -> {"sub-1"}
      [] v = "AML_COMPUTE_CLUSTER_NAME" -> TargetNames
      [] v = "AML_COMPUTE_CLUSTER_MIN_NODES" -> {"", "1"}
      [] v = "AML_COMPUTE_CLUSTER_MAX_NODES" -> {"4"}
      [] v = "AML_COMPUTE_CLUSTER_SKU" -> {"STANDARD_NC6"}
AllEnvValues == UNION {EnvValues(v) : v \in EnvVars}
Environments ==
    UNION {{f \in [D -> AllEnvValues] : \A v \in D : f[v] \in EnvValues(v)} :
           D \in SUBSET EnvVars}
Workspaces ==
    UNION {[D -> TargetTypes] : D \in SUBSET TargetNames}
RunIds == {"dlwp_run_1", "dlwp_run_2"}
RunStates == {"queued", "starting", "running", "completed", "canceled", "failed"}

\* Variant: `os.environ.get(key) or default`, an empty value falls back too.
EnvironGetFalsy(env, key, default) ==
    IF key \in DOMAIN env /\ env[key] # "" THEN PyStr(env[key]) ELSE default

\* os.environ.get(key, default)
EnvironGet(env, key, default) ==
    IF key \in DOMAIN env THEN PyStr(env[key]) ELSE default

timeout_in_minutes == 10

Call(op, ok) == [op |-> op, ok |-> ok]

\* The remote call the flow is about to make at each step.
RemoteOp(p) ==
    CASE p = "workspace" -> "Workspace.get"
      [] p = "lookup" -> "compute_targets.contains"
      [] p = "fetch" -> "compute_targets.getitem"
      [] p = "create" -> "ComputeTarget.create"
      [] p = "wait" -> "wait_for_completion"
      [] p = "datastore" -> "get_default_datastore"
      [] p = "experiment" -> "Experiment"
      [] p = "submit" -> "exp.submit"
      [] p = "cancel" -> "run.cancel"
RemoteSteps == {"workspace", "lookup", "fetch", "create", "wait", "datastore",
                "experiment", "submit", "cancel"}

Init ==
    /\ environ \in Environments
    /\ initial_targets \in Workspaces
    /\ compute_targets = initial_targets
    /\ pc = "workspace"
    /\ ws = UnboundWorkspace
    /\ compute_name = PyNone
    /\ compute_min_nodes = PyNone
    /\ compute_max_nodes = PyNone
    /\ vm_size = PyNone
    /\ provisioning_config = UnboundConfig
    /\ compute_target = UnboundTarget
    /\ ds = Unbound
    /\ exp = Unbound
    /\ script_params = UnboundParams
    /\ tf_est = UnboundEstimator
    /\ run = Unbound
    /\ calls = <<>>
    /\ createRequests = <<>>
    /\ submissions = <<>>
    /\ cancelRequests = <<>>
    /\ stdout = <<>>
    /\ displayed = Unbound
    /\ elapsed = 0
    /\ minReached = FALSE
    /\ runState = "none"

\* Variant: the failing call is caught and made again.
AbortRetries(op) ==
    /\ calls' = Append(calls, Call(op, FALSE))
    /\ pc' = pc
    /\ UNCHANGED <<environ, initial_targets, stdout, displayed, elapsed,
                   localVars, serviceVars>>

\* A remote call raises: the exception leaves the cell and the flow stops.
Abort(op) ==
    /\ calls' = Append(calls, Call(op, FALSE))
    /\ pc' = "failed"
    /\ UNCHANGED <<environ, initial_targets, stdout, displayed, elapsed,
                   localVars, serviceVars>>

RemoteCallFails ==
    /\ pc \in RemoteSteps
    /\ Abort(RemoteOp(pc))

\* ws = Workspace.get(name='dlwp-ml-1', subscription_id=..., resource_group='DLWP')
WorkspaceGet ==
    /\ pc = "workspace"
    /\ ws' = [name |-> "dlwp-ml-1",
              subscription_id |-> EnvironGet(environ, "AZURE_SUBSCRIPTION_ID", PyNone),
              resource_group |-> "DLWP"]
    /\ calls' = Append(calls, Call("Workspace.get", TRUE))
    /\ pc' = "configure"
    /\ UNCHANGED <<environ, initial_targets, stdout, displayed, elapsed, serviceVars,
                   compute_name, compute_min_nodes, compute_max_nodes, vm_size,
                   provisioning_config, compute_target, ds, exp, script_params,
                   tf_est, run>>

\* compute_name, compute_min_nodes, compute_max_nodes, vm_size = os.environ.get(...)
Configure ==
    /\ pc = "configure"
    /\ compute_name' = EnvironGet(environ, "AML_COMPUTE_CLUSTER_NAME", PyStr("dlwp-compute-1"))
    /\ compute_min_nodes' = EnvironGet(environ, "AML_COMPUTE_CLUSTER_MIN_NODES", PyInt("0"))
    /\ compute_max_nodes' = EnvironGet(environ, "AML_COMPUTE_CLUSTER_MAX_NODES", PyInt("2"))
    /\ vm_size' = EnvironGet(environ, "AML_COMPUTE_CLUSTER_SKU", PyStr("STANDARD_NV6"))
    /\ pc' = "lookup"
    /\ UNCHANGED <<environ, initial_targets, calls, stdout, displayed, elapsed,
                   serviceVars, ws, provisioning_config, compute_target, ds, exp,
                   script_params, tf_est, run>>

\* Variant: the membership test is dropped, the cluster is always created.
LookupAlwaysCreates ==
    /\ pc = "lookup"
    /\ calls' = Append(calls, Call("compute_targets.contains", TRUE))
    /\ stdout' = Append(stdout, <<"creating a new compute target", compute_name[2]>>)
    /\ provisioning_config' = [vm_size |-> vm_size,
                               min_nodes |-> compute_min_nodes,
                               max_nodes |-> compute_max_nodes]
    /\ pc' = "create"
    /\ UNCHANGED <<environ, initial_targets, displayed, elapsed, serviceVars, ws,
                   compute_name, compute_min_nodes, compute_max_nodes, vm_size,
                   compute_target, ds, exp, script_params, tf_est, run>>

\* Variant: min_nodes and max_nodes are passed the wrong way round.
LookupSwapsNodes ==
    /\ pc = "lookup"
    /\ calls' = Append(calls, Call("compute_targets.contains", TRUE))
    /\ IF compute_name[2] \in DOMAIN compute_targets
       THEN /\ pc' = "fetch"
            /\ UNCHANGED <<stdout, provisioning_config>>
       ELSE /\ stdout' = Append(stdout, <<"creating a new compute target", compute_name[2]>>)
            /\ provisioning_config' = [vm_size |-> vm_size,
                                       min_nodes |-> compute_max_nodes,
                                       max_nodes |-> compute_min_nodes]
            /\ pc' = "create"
    /\ UNCHANGED <<environ, initial_targets, displayed, elapsed, serviceVars, ws,
                   compute_name, compute_min_nodes, compute_max_nodes, vm_size,
                   compute_target, ds, exp, script_params, tf_est, run>>

\* if compute_name in ws.compute_targets: ... else: print, provisioning_configuration
Lookup ==
    /\ pc = "lookup"
    /\ calls' = Append(calls, Call("compute_targets.contains", TRUE))
    /\ IF compute_name[2] \in DOMAIN compute_targets
       THEN /\ pc' = "fetch"
            /\ UNCHANGED <<stdout, provisioning_config>>
       ELSE /\ stdout' = Append(stdout, <<"creating a new compute target", compute_name[2]>>)
            /\ provisioning_config' = [vm_size |-> vm_size,
                                       min_nodes |-> compute_min_nodes,
                                       max_nodes |-> compute_max_nodes]
            /\ pc' = "create"
    /\ UNCHANGED <<environ, initial_targets, displayed, elapsed, serviceVars, ws,
                   compute_name, compute_min_nodes, compute_max_nodes, vm_size,
                   compute_target, ds, exp, script_params, tf_est, run>>

\* Variant: compute_target is bound only once the type test has passed.
FetchBindsOnlyAmlCompute ==
    /\ pc = "fetch"
    /\ compute_name[2] \in DOMAIN compute_targets
    /\ calls' = Append(calls, Call("compute_targets.getitem", TRUE))
    /\ IF compute_targets[compute_name[2]] = "AmlCompute"
       THEN /\ compute_target' = [name |-> compute_name[2], type |-> "AmlCompute"]
            /\ stdout' = Append(stdout, <<"found compute target", compute_name[2]>>)
       ELSE /\ compute_target' = compute_target
            /\ stdout' = stdout
    /\ pc' = "datastore"
    /\ UNCHANGED <<environ, initial_targets, displayed, elapsed, serviceVars, ws,
                   compute_name, compute_min_nodes, compute_max_nodes, vm_size,
                   provisioning_config, ds, exp, script_params, tf_est, run>>

\* Variant: the message is printed whatever the type of the target.
FetchPrintsAlways ==
    /\ pc = "fetch"
    /\ compute_name[2] \in DOMAIN compute_targets
    /\ calls' = Append(calls, Call("compute_targets.getitem", TRUE))
    /\ compute_target' = [name |-> compute_name[2],
                          type |-> compute_targets[compute_name[2]]]
    /\ stdout' = Append(stdout, <<"found compute target", compute_name[2]>>)
    /\ pc' = "datastore"
    /\ UNCHANGED <<environ, initial_targets, displayed, elapsed, serviceVars, ws,
                   compute_name, compute_min_nodes, compute_max_nodes, vm_size,
                   provisioning_config, ds, exp, script_params, tf_est, run>>

\* compute_target = ws.compute_targets[compute_name]; print only for an AmlCompute
Fetch ==
    /\ pc = "fetch"
    /\ compute_name[2] \in DOMAIN compute_targets
    /\ calls' = Append(calls, Call("compute_targets.getitem", TRUE))
    /\ compute_target' = [name |-> compute_name[2],
                          type |-> compute_targets[compute_name[2]]]
    /\ IF compute_targets[compute_name[2]] = "AmlCompute"
       THEN stdout' = Append(stdout, <<"found compute target", compute_name[2]>>)
       ELSE stdout' = stdout
    /\ pc' = "datastore"
    /\ UNCHANGED <<environ, initial_targets, displayed, elapsed, serviceVars, ws,
                   compute_name, compute_min_nodes, compute_max_nodes, vm_size,
                   provisioning_config, ds, exp, script_params, tf_est, run>>

\* compute_target = ComputeTarget.create(ws, compute_name, provisioning_config)
Create ==
    /\ pc = "create"
    /\ calls' = Append(calls, Call("ComputeTarget.create", TRUE))
    /\ createRequests' = Append(createRequests,
                                [workspace |-> ws.name, name |-> compute_name[2],
                                 config |-> provisioning_config])
    /\ compute_targets' = [n \in DOMAIN compute_targets \cup {compute_name[2]} |->
                              IF n = compute_name[2] THEN "AmlCompute"
                              ELSE compute_targets[n]]
    /\ compute_target' = [name |-> compute_name[2], type |-> "AmlCompute"]
    /\ minReached' = (provisioning_config.min_nodes = PyInt("0"))
    /\ elapsed' = 0
    /\ pc' = "wait"
    /\ UNCHANGED <<environ, initial_targets, stdout, displayed, submissions,
                   cancelRequests, runState, ws, compute_name, compute_min_nodes,
                   compute_max_nodes, vm_size, provisioning_config, ds, exp,
                   script_params, tf_est, run>>

\* Variant: the wait is made without a timeout.
WaitPollNoTimeout ==
    /\ pc = "wait"
    /\ ~minReached
    /\ elapsed' = elapsed + 1
    /\ UNCHANGED <<environ, initial_targets, pc, calls, stdout, displayed,
                   localVars, serviceVars>>

\* wait_for_completion(..., timeout_in_minutes=10): a minute passes, still polling
WaitPoll ==
    /\ pc = "wait"
    /\ ~minReached
    /\ elapsed < timeout_in_minutes
    /\ elapsed' = elapsed + 1
    /\ UNCHANGED <<environ, initial_targets, pc, calls, stdout, displayed,
                   localVars, serviceVars>>

\* wait_for_completion returns: the minimum is there, or the timeout expired
WaitReturn ==
    /\ pc = "wait"
    /\ minReached \/ elapsed >= timeout_in_minutes
    /\ calls' = Append(calls, Call("wait_for_completion", TRUE))
    /\ pc' = "datastore"
    /\ UNCHANGED <<environ, initial_targets, stdout, displayed, elapsed,
                   localVars, serviceVars>>

\* Variant: the commented-out ds.upload(...) is executed.
DatastoreUploads ==
    /\ pc = "datastore"
    /\ calls' = calls \o <<Call("get_default_datastore", TRUE), Call("ds.upload", TRUE)>>
    /\ ds' = "workspaceblobstore"
    /\ stdout' = Append(stdout, <<"AzureBlob", "workspaceblobstore">>)
    /\ pc' = "experiment"
    /\ UNCHANGED <<environ, initial_targets, displayed, elapsed, serviceVars, ws,
                   compute_name, compute_min_nodes, compute_max_nodes, vm_size,
                   provisioning_config, compute_target, exp, script_params,
                   tf_est, run>>

\* ds = ws.get_default_datastore(); print(ds.datastore_type, ...)
Datastore ==
    /\ pc = "datastore"
    /\ calls' = Append(calls, Call("get_default_datastore", TRUE))
    /\ ds' = "workspaceblobstore"
    /\ stdout' = Append(stdout, <<"AzureBlob", "workspaceblobstore">>)
    /\ pc' = "experiment"
    /\ UNCHANGED <<environ, initial_targets, displayed, elapsed, serviceVars, ws,
                   compute_name, compute_min_nodes, compute_max_nodes, vm_size,
                   provisioning_config, compute_target, exp, script_params,
                   tf_est, run>>

\* exp = Experiment(workspace=ws, name='dlwp')
ExperimentCell ==
    /\ pc = "experiment"
    /\ calls' = Append(calls, Call("Experiment", TRUE))
    /\ exp' = "dlwp"
    /\ pc' = "estimator"
    /\ UNCHANGED <<environ, initial_targets, stdout, displayed, elapsed, serviceVars,
                   ws, compute_name, compute_min_nodes, compute_max_nodes, vm_size,
                   provisioning_config, compute_target, ds, script_params,
                   tf_est, run>>

\* ds.path('DLWP').as_mount()
MountReference(store, folder) ==
    [datastore |-> store, path |-> folder, mode |-> "mount"]

\* Variant: the --temp-dir flag is left out.
ScriptParamsNoTempDir(store) ==
    [f \in {"--root-directory", "--predictor-file", "--model-file",
            "--log-directory"} |->
        CASE f = "--root-directory" -> MountReference(store, "DLWP")
          [] f = "--predictor-file" -> "cfs_1979-2010_hgt-thick_300-500-700_NH_T2.nc"
          [] f = "--model-file" -> "dlwp_tau-lstm"
          [] f = "--log-directory" -> "logs/tau-lstm"]

ScriptParams(store) ==
    [f \in {"--root-directory", "--predictor-file", "--model-file",
            "--log-directory", "--temp-dir"} |->
        CASE f = "--root-directory" -> MountReference(store, "DLWP")
          [] f = "--predictor-file" -> "cfs_1979-2010_hgt-thick_300-500-700_NH_T2.nc"
          [] f = "--model-file" -> "dlwp_tau-lstm"
          [] f = "--log-directory" -> "logs/tau-lstm"
          [] f = "--temp-dir" -> "/mnt/tmp"]

\* script_params = {...}; tf_est = TensorFlow(...)
Estimator ==
    /\ pc = "estimator"
    /\ IF compute_target = UnboundTarget
       THEN /\ pc' = "failed"
            /\ UNCHANGED <<script_params, tf_est>>
       ELSE /\ script_params' = ScriptParams(ds)
            /\ tf_est' = [source_directory |-> "..",
                          script_params |-> ScriptParams(ds),
                          compute_target |-> compute_target,
                          entry_script |-> "train_tf.py",
                          conda_packages |-> <<"scikit-learn", "netCDF4", "dask", "xarray">>,
                          pip_packages |-> <<"keras">>,
                          use_gpu |-> TRUE]
            /\ pc' = "submit"
    /\ UNCHANGED <<environ, initial_targets, calls, stdout, displayed, elapsed,
                   serviceVars, ws, compute_name, compute_min_nodes,
                   compute_max_nodes, vm_size, provisioning_config, compute_target,
                   ds, exp, run>>

\* run = exp.submit(config=tf_est); run
Submit ==
    /\ pc = "submit"
    /\ \E id \in RunIds, s \in {"queued", "starting"} :
          /\ run' = id
          /\ runState' = s
          /\ displayed' = s
    /\ calls' = Append(calls, Call("exp.submit", TRUE))
    /\ submissions' = Append(submissions, [experiment |-> exp, config |-> tf_est])
    /\ pc' = "cancel"
    /\ UNCHANGED <<environ, initial_targets, stdout, elapsed, compute_targets,
                   createRequests, cancelRequests, minReached, ws, compute_name,
                   compute_min_nodes, compute_max_nodes, vm_size,
                   provisioning_config, compute_target, ds, exp, script_params,
                   tf_est>>

\* Variant: after the request the cell polls until the run is reported canceled.
CancelAwaitsConfirmation ==
    /\ pc = "cancel"
    /\ IF cancelRequests = <<>>
       THEN /\ calls' = Append(calls, Call("run.cancel", TRUE))
            /\ cancelRequests' = Append(cancelRequests, run)
            /\ pc' = pc
       ELSE /\ runState = "canceled"
            /\ pc' = "done"
            /\ UNCHANGED <<calls, cancelRequests>>
    /\ UNCHANGED <<environ, initial_targets, stdout, displayed, elapsed,
                   compute_targets, createRequests, submissions, minReached,
                   runState, localVars>>

\* run.cancel()
Cancel ==
    /\ pc = "cancel"
    /\ calls' = Append(calls, Call("run.cancel", TRUE))
    /\ cancelRequests' = Append(cancelRequests, run)
    /\ pc' = "done"
    /\ UNCHANGED <<environ, initial_targets, stdout, displayed, elapsed,
                   compute_targets, createRequests, submissions, minReached,
                   runState, localVars>>

\* Provider: the new cluster reaches its minimum node count.
ProviderScales ==
    /\ createRequests # <<>>
    /\ ~minReached
    /\ minReached' = TRUE
    /\ UNCHANGED <<environ, initial_targets, pc, calls, stdout, displayed, elapsed,
                   localVars, compute_targets, createRequests, submissions,
                   cancelRequests, runState>>

\* Provider: the run moves through its lifecycle on its own.
ProviderRunAdvances ==
    /\ runState \in {"queued", "starting", "running"}
    /\ runState' \in CASE runState = "queued" -> {"starting", "failed"}
                       [] runState = "starting" -> {"running", "failed"}
                       [] runState = "running" -> {"completed", "failed"}
    /\ UNCHANGED <<environ, initial_targets, pc, calls, stdout, displayed, elapsed,
                   localVars, compute_targets, createRequests, submissions,
                   cancelRequests, minReached>>

\* Provider: a cancel request takes effect on a run that has not ended.
ProviderCancelsRun ==
    /\ cancelRequests # <<>>
    /\ runState \in {"queued", "starting", "running"}
    /\ runState' = "canceled"
    /\ UNCHANGED <<environ, initial_targets, pc, calls, stdout, displayed, elapsed,
                   localVars, compute_targets, createRequests, submissions,
                   cancelRequests, minReached>>

\* The steps of the notebook itself (executed one after the other by the kernel).
LocalNext ==
    \/ WorkspaceGet
    \/ Configure
    \/ Lookup
    \/ Fetch
    \/ Create
    \/ WaitPoll
    \/ WaitReturn
    \/ Datastore
    \/ ExperimentCell
    \/ Estimator
    \/ Submit
    \/ Cancel
    \/ RemoteCallFails

Next ==
    \/ WorkspaceGet
    \/ Configure
    \/ Lookup
    \/ Fetch
    \/ Create
    \/ WaitPoll
    \/ WaitReturn
    \/ Datastore
    \/ ExperimentCell
    \/ Estimator
    \/ Submit
    \/ Cancel
    \/ RemoteCallFails
    \/ ProviderScales
    \/ ProviderRunAdvances
    \/ ProviderCancelsRun

Spec == Init /\ [][Next]_vars

\* The kernel keeps executing the flow; the provider owes nothing.
FairSpec == Spec /\ WF_vars(LocalNext)

(***************************************************************************)
(* Vocabulary of the properties.                                           *)
(***************************************************************************)
Count(op) == Cardinality({i \in 1..Len(calls) : calls[i].op = op})
Made(op) == \E i \in 1..Len(calls) : calls[i].op = op /\ calls[i].ok
Configured == compute_name # PyNone
\* The workspace state the flow started from, seen through the resolved name.
PresentAtStart == Configured /\ compute_name[2] \in DOMAIN initial_targets
ReuseCase == PresentAtStart /\ initial_targets[compute_name[2]] = "AmlCompute"
WrongTypeCase == PresentAtStart /\ initial_targets[compute_name[2]] # "AmlCompute"
AbsentCase == Configured /\ compute_name[2] \notin DOMAIN initial_targets
LaterOps == {"get_default_datastore", "Experiment", "exp.submit", "run.cancel"}
\* The compute provisioning step is over and a later step has begun.
ProvisioningFinished ==
    \/ pc \in {"datastore", "experiment", "estimator", "submit", "cancel", "done"}
    \/ \E i \in 1..Len(calls) : calls[i].op \in LaterOps
PrintedByProvisioning ==
    {i \in 1..Len(stdout) :
        stdout[i][1] \in {"found compute target", "creating a new compute target"}}

\* C1: when the resolved name is already registered as an AmlCompute, no
\* ComputeTarget.create request and no wait_for_completion call is ever made,
\* and once the step is over compute_target is the existing target of that name.
C1_Reuse ==
    ReuseCase =>
        /\ createRequests = <<>>
        /\ Count("ComputeTarget.create") = 0
        /\ Count("wait_for_completion") = 0
        /\ pc \notin {"create", "wait"}
        /\ elapsed = 0
        /\ compute_targets = initial_targets
        /\ ProvisioningFinished =>
              compute_target = [name |-> compute_name[2], type |-> "AmlCompute"]
C1_Witness ==
    ReuseCase /\ pc = "done" /\ compute_target.type = "AmlCompute"

\* C2: when the resolved name is not registered, at most one create request is
\* ever made, and once a later step runs exactly one was made, with the name
\* and the resolved vm_size, min_nodes and max_nodes, followed by exactly one
\* wait_for_completion call, both before any call of a later step.
C2_Creation ==
    AbsentCase =>
        /\ Len(createRequests) <= 1
        /\ Count("ComputeTarget.create") <= 1
        /\ Count("wait_for_completion") <= Count("ComputeTarget.create")
        /\ \A i \in 1..Len(createRequests) :
              /\ createRequests[i].name = compute_name[2]
              /\ createRequests[i].config.vm_size = vm_size
              /\ createRequests[i].config.min_nodes = compute_min_nodes
              /\ createRequests[i].config.max_nodes = compute_max_nodes
        /\ ProvisioningFinished =>
              /\ Len(createRequests) = 1
              /\ Len(calls) >= 4
              /\ calls[3] = Call("ComputeTarget.create", TRUE)
              /\ calls[4] = Call("wait_for_completion", TRUE)
              /\ Count("ComputeTarget.create") = 1
              /\ Count("wait_for_completion") = 1
              /\ \A i \in 1..Len(calls) : calls[i].op \in LaterOps => i > 4
C2_Witness ==
    /\ AbsentCase
    /\ pc = "done"
    /\ Len(createRequests) = 1
    /\ createRequests[1].config.min_nodes = PyStr("1")
    /\ createRequests[1].config.max_nodes = PyInt("2")

\* C3: after configuration, each of the four values is its literal default
\* when its variable is unset ("dlwp-compute-1", int 0, int 2, "STANDARD_NV6")
\* and the string found in the environment when the variable is set.
C3_Configuration ==
    Configured =>
        /\ compute_name =
              IF "AML_COMPUTE_CLUSTER_NAME" \in DOMAIN environ
              THEN <<"str", environ["AML_COMPUTE_CLUSTER_NAME"]>>
              ELSE <<"str", "dlwp-compute-1">>
        /\ compute_min_nodes =
              IF "AML_COMPUTE_CLUSTER_MIN_NODES" \in DOMAIN environ
              THEN <<"str", environ["AML_COMPUTE_CLUSTER_MIN_NODES"]>>
              ELSE <<"int", "0">>
        /\ compute_max_nodes =
              IF "AML_COMPUTE_CLUSTER_MAX_NODES" \in DOMAIN environ
              THEN <<"str", environ["AML_COMPUTE_CLUSTER_MAX_NODES"]>>
              ELSE <<"int", "2">>
        /\ vm_size =
              IF "AML_COMPUTE_CLUSTER_SKU" \in DOMAIN environ
              THEN <<"str", environ["AML_COMPUTE_CLUSTER_SKU"]>>
              ELSE <<"str", "STANDARD_NV6">>
C3_Witness ==
    /\ pc = "lookup"
    /\ DOMAIN environ = {"AML_COMPUTE_CLUSTER_MIN_NODES", "AML_COMPUTE_CLUSTER_NAME"}
    /\ environ["AML_COMPUTE_CLUSTER_MIN_NODES"] = ""
    /\ compute_min_nodes = <<"str", "">>
    /\ compute_max_nodes = <<"int", "2">>
    /\ vm_size = <<"str", "STANDARD_NV6">>

\* C4: every descriptor received through exp.submit has exactly the five flags
\* with their configured values (the root directory is the mount reference of
\* folder DLWP of the datastore), use_gpu true, the four conda packages, the
\* pip package keras, and the compute target bound by the provisioning step.
C4_JobDescriptor ==
    \A i \in 1..Len(submissions) :
        LET d == submissions[i].config IN
        /\ DOMAIN d.script_params = {"--root-directory", "--predictor-file",
                                     "--model-file", "--log-directory", "--temp-dir"}
        /\ d.script_params["--root-directory"] =
              [datastore |-> ds, path |-> "DLWP", mode |-> "mount"]
        /\ ds = "workspaceblobstore"
        /\ d.script_params["--predictor-file"] = "cfs_1979-2010_hgt-thick_300-500-700_NH_T2.nc"
        /\ d.script_params["--model-file"] = "dlwp_tau-lstm"
        /\ d.script_params["--log-directory"] = "logs/tau-lstm"
        /\ d.script_params["--temp-dir"] = "/mnt/tmp"
        /\ d.use_gpu = TRUE
        /\ d.conda_packages = <<"scikit-learn", "netCDF4", "dask", "xarray">>
        /\ d.pip_packages = <<"keras">>
        /\ d.compute_target = compute_target
        /\ d.compute_target.name = compute_name[2]
        /\ d.compute_target.type = compute_targets[compute_name[2]]
C4_Witness ==
    Len(submissions) = 1 /\ pc = "cancel" /\ submissions[1].config.use_gpu

\* C5: run.cancel() makes exactly one cancellation request, for the run that was
\* submitted; the step that makes the request ends the flow at once, reading and
\* awaiting nothing of the run, so the flow at the cancel cell always ends,
\* whatever state the provider has put the run in and whether or not the
\* provider ever reports the run canceled.
C5_Cancellation ==
    /\ [](/\ Len(cancelRequests) <= 1
          /\ Count("run.cancel") <= 1
          /\ pc = "done" => Len(cancelRequests) = 1)
    /\ [][cancelRequests' # cancelRequests =>
              /\ pc = "cancel"
              /\ pc' = "done"
              /\ cancelRequests' = Append(cancelRequests, run)
              /\ displayed' = displayed
              /\ runState' = runState]_vars
    /\ [][(pc \in {"cancel", "done"}) => displayed' = displayed]_vars
    /\ [](pc = "cancel" => (runState \in RunStates /\ ENABLED Cancel))
    /\ (pc = "cancel") ~> (pc \in {"done", "failed"})
C5_Witness ==
    pc = "done" /\ Len(cancelRequests) = 1 /\ runState = "running"

\* C6 as stated: with a target of the resolved name registered under another
\* type than AmlCompute, the flow reaches the construction of the job
\* descriptor with compute_target bound to no value.
C6_UndefinedReference ==
    (WrongTypeCase /\ pc = "estimator") => compute_target = UnboundTarget

\* C6 amended: in that case the flow reaches the construction of the job
\* descriptor with compute_target bound to the existing target of that name,
\* whose type is not AmlCompute.
C6_BoundToWrongType ==
    (WrongTypeCase /\ pc \in {"datastore", "experiment", "estimator"}) =>
        /\ compute_target # UnboundTarget
        /\ compute_target = [name |-> compute_name[2],
                             type |-> initial_targets[compute_name[2]]]
        /\ compute_target.type # "AmlCompute"
C6_Witness ==
    WrongTypeCase /\ pc = "estimator" /\ compute_target.type = "RemoteCompute"

\* C7: with a target of the resolved name registered under another type than
\* AmlCompute, the provisioning step makes no create request and no wait call,
\* prints nothing and raises nothing of its own (the flow fails only where a
\* remote call raised), and the later steps up to submission run with a target
\* that is not an AmlCompute: none was created, none was reused.
C7_SilentFallthrough ==
    WrongTypeCase =>
        /\ createRequests = <<>>
        /\ Count("ComputeTarget.create") = 0
        /\ Count("wait_for_completion") = 0
        /\ PrintedByProvisioning = {}
        /\ compute_targets = initial_targets
        /\ pc = "failed" => (calls # <<>> /\ ~calls[Len(calls)].ok)
        /\ Made("compute_targets.getitem") => ProvisioningFinished
        /\ \A i \in 1..Len(submissions) :
              submissions[i].config.compute_target.type # "AmlCompute"
C7_Witness ==
    /\ WrongTypeCase
    /\ Len(submissions) = 1
    /\ stdout = <<<<"AzureBlob", "workspaceblobstore">>>>
    /\ \A i \in 1..Len(calls) : calls[i].ok

\* C8: the wait for the minimum node count never lasts longer than the
\* 10-minute timeout and always ends; when it ends by returning, with or
\* without the minimum reached, the flow goes on to datastore resolution with
\* the newly created target, and from there to submission.
C8_BoundedWait ==
    /\ [](elapsed <= timeout_in_minutes)
    /\ (pc = "wait") ~> (pc # "wait")
    /\ [][(pc = "wait" /\ pc' # "wait" /\ ~RemoteCallFails) =>
              /\ pc' = "datastore"
              /\ compute_target' = [name |-> compute_name[2], type |-> "AmlCompute"]
              /\ calls' = Append(calls, Call("wait_for_completion", TRUE))]_vars
    /\ [](pc = "wait" /\ elapsed >= timeout_in_minutes => ENABLED WaitReturn)
C8_Witness ==
    /\ Len(submissions) = 1
    /\ elapsed = timeout_in_minutes
    /\ ~minReached
    /\ Made("wait_for_completion")

\* C9: a remote call that fails is the last remote call of the flow: it is not
\* made again, no call of a later step follows it (no job is submitted after a
\* failed step), the flow is stopped, and from then on nothing local changes.
C9_FailurePropagation ==
    /\ [](/\ \A i \in 1..Len(calls) : ~calls[i].ok => (i = Len(calls) /\ pc = "failed")
          /\ \A i, j \in 1..Len(calls) : i < j => calls[i].op # calls[j].op
          /\ submissions # <<>> =>
                \A i \in 1..Len(calls) :
                    calls[i].op \notin {"exp.submit", "run.cancel"} => calls[i].ok)
    /\ [][pc = "failed" =>
              /\ pc' = "failed"
              /\ calls' = calls
              /\ stdout' = stdout
              /\ localVars' = localVars
              /\ <<compute_targets, createRequests, submissions, cancelRequests>>' =
                     <<compute_targets, createRequests, submissions, cancelRequests>>]_vars
C9_Witness ==
    /\ pc = "failed"
    /\ Len(calls) = 3
    /\ calls[3] = Call("ComputeTarget.create", FALSE)
    /\ submissions = <<>>

\* The place of each remote call in the flow.
Rank(op) ==
    CASE op = "Workspace.get" -> 1
      [] op = "compute_targets.contains" -> 2
      [] op = "compute_targets.getitem" -> 3
      [] op = "ComputeTarget.create" -> 4
      [] op = "wait_for_completion" -> 5
      [] op = "get_default_datastore" -> 6
      [] op = "Experiment" -> 7
      [] op = "exp.submit" -> 8
      [] op = "run.cancel" -> 9
      [] OTHER -> 0

\* C10: the remote calls are made in the order workspace, compute-target
\* lookup, (creation, wait: only when the name is absent), datastore,
\* experiment, submission, cancellation; at most one job is submitted, after
\* the provisioning step; the submission returns a handle on a run that has
\* not ended; the cancel request names that handle; nothing is ever uploaded.
C10_StepOrdering ==
    /\ [](/\ \A i, j \in 1..Len(calls) :
                i < j => (0 < Rank(calls[i].op) /\ Rank(calls[i].op) < Rank(calls[j].op))
          /\ \A i \in 1..Len(calls) :
                /\ Rank(calls[i].op) > 0
                /\ Rank(calls[i].op) > 1 => Made("Workspace.get")
                /\ calls[i].op \in {"ComputeTarget.create", "wait_for_completion"} =>
                      AbsentCase
                /\ calls[i].op = "compute_targets.getitem" => PresentAtStart
                /\ calls[i].op \in LaterOps =>
                      \/ Made("compute_targets.getitem")
                      \/ Made("wait_for_completion")
                /\ calls[i].op = "exp.submit" =>
                      Made("get_default_datastore") /\ Made("Experiment")
                /\ calls[i].op = "run.cancel" => Made("exp.submit")
          /\ Len(submissions) <= 1
          /\ Count("exp.submit") <= 1
          /\ submissions # <<>> <=> Made("exp.submit")
          /\ Made("exp.submit") <=> run \in RunIds
          /\ \A i \in 1..Len(cancelRequests) : cancelRequests[i] = run /\ run \in RunIds)
    /\ [][submissions' # submissions =>
              /\ pc = "submit"
              /\ pc' = "cancel"
              /\ run' \in RunIds
              /\ runState' \in {"queued", "starting"}]_vars
C10_Witness ==
    /\ pc = "done"
    /\ AbsentCase
    /\ Len(calls) = 8
    /\ cancelRequests = <<run>>
    /\ runState = "queued"


====
